---------------------------- MODULE Spec2Model ----------------------------
(***************************************************************************)
(* Bakery sales dashboard (pages/07_수행평가.py).                           *)
(*                                                                         *)
(* Text is modelled as a tuple of one-character strings, so that           *)
(* lower(), strip(), `in` (substring) and == on item names are computed    *)
(* character by character as Python computes them.                         *)
(***************************************************************************)
EXTENDS Integers, Sequences, FiniteSets, TLC

VARIABLES
    item,                  \* argument of a direct map_item_category call
    result,                \* what that call returned (<<>> before the call)
    file_exists,           \* os.path.exists('Bakery.csv')
    file_rows,             \* the rows of Bakery.csv, in file order
    build,                 \* behaviour fixed by the installed pandas/numpy
    selected_daypart,      \* widget state: st.selectbox of tab 1
    item_category,         \* widget state: st.radio of tab 1
    selected_sub_category, \* widget state: second st.selectbox of tab 1
    df,                    \* module-level df of the last script run
    rendered,              \* elements the last script run put on the page
    ran,                   \* operations the last script run executed
    daypart_top_5,         \* table shown in the left column of tab 1
    category_items,        \* table shown in the right column of tab 1
    sales_by_day,          \* grouped frame of tab 2
    color_map,             \* set of <<DayType, colour>> pairs of tab 2
    weekend_sales,         \* -1 while unbound
    weekday_sales,         \* -1 while unbound
    message,               \* which summary sentence tab 2 printed ("" if none)
    exception,             \* uncaught exception that ended the run ("" if none)
    pc                     \* "start" before the first run, "done" after a run

classifier_vars == <<item, result>>
dashboard_vars == <<file_exists, file_rows, build, selected_daypart, item_category,
                    selected_sub_category, df, rendered, ran, daypart_top_5,
                    category_items, sales_by_day, color_map, weekend_sales,
                    weekday_sales, message, exception, pc>>
vars == <<classifier_vars, dashboard_vars>>

----------------------------------------------------------------------------
(* Bounds of the model *)

\* longest direct classifier argument, counted in pieces of ItemPieces
MaxPieces == 2
\* longest freely composed Bakery.csv, counted in rows of RowChoices
MaxRows == 2

----------------------------------------------------------------------------
(* Text helpers *)

Range(s) == {s[i] : i \in DOMAIN s}

Min(a, b) == IF a <= b THEN a ELSE b

\* Python: kw in s
Contains(kw, s) ==
    \E i \in 0..(Len(s) - Len(kw)) : SubSeq(s, i + 1, i + Len(kw)) = kw

UpperToLower ==
    [c \in {"A","B","C","D","E","F","G","H","I","J","K","L","M","N","O","P","Q",
            "R","S","T","U","V","W","X","Y","Z"} |->
        CASE c = "A" -> "a" [] c = "B" -> "b" [] c = "C" -> "c" [] c = "D" -> "d"
          [] c = "E" -> "e" [] c = "F" -> "f" [] c = "G" -> "g" [] c = "H" -> "h"
          [] c = "I" -> "i" [] c = "J" -> "j" [] c = "K" -> "k" [] c = "L" -> "l"
          [] c = "M" -> "m" [] c = "N" -> "n" [] c = "O" -> "o" [] c = "P" -> "p"
          [] c = "Q" -> "q" [] c = "R" -> "r" [] c = "S" -> "s" [] c = "T" -> "t"
          [] c = "U" -> "u" [] c = "V" -> "v" [] c = "W" -> "w" [] c = "X" -> "x"
          [] c = "Y" -> "y" [] c = "Z" -> "z"]

\* Python: s.lower()
lower(s) ==
    [i \in 1..Len(s) |-> IF s[i] \in DOMAIN UpperToLower THEN UpperToLower[s[i]] ELSE s[i]]

Whitespace == {" ", "\t", "\n"}

RECURSIVE lstrip(_)
lstrip(s) == IF s # <<>> /\ Head(s) \in Whitespace THEN lstrip(Tail(s)) ELSE s

RECURSIVE rstrip(_)
rstrip(s) ==
    IF s # <<>> /\ s[Len(s)] \in Whitespace THEN rstrip(SubSeq(s, 1, Len(s) - 1)) ELSE s

\* Python: s.strip()
strip(s) == rstrip(lstrip(s))

----------------------------------------------------------------------------
(* map_item_category *)

meals ==
    << <<"s","a","n","d","w","i","c","h">>, <<"s","p","a","n","i","s","h"," ","b","r","u","n","c","h">>, <<"s","o","u","p">>, <<"t","a","c","o","s","/","f","a","j","i","t","a">>, <<"f","o","c","a","c","c","i","a">>,
       <<"s","c","a","n","d","i","n","a","v","i","a","n">>, <<"b","a","g","u","e","t","t","e">>, <<"s","c","o","n","e">>, <<"b","o","w","l">>, <<"t","o","a","s","t">>, <<"m","i","s","o">>,
       <<"t","r","u","f","f","l","e">>, <<"b","a","c","o","n">>, <<"e","g","g","s">>, <<"e","x","t","r","a"," ","s","a","l","a","m","i"," ","o","r"," ","f","e","t","a">>, <<"c","h","o","c"," ","s","p","r","e","a","d">>,
       <<"b","r","o","w","n","i","e">>, <<"t","i","f","f","i","n">> >>

\* line 50: any(m in item for m in meals)
IsMeal(it) == \E i \in DOMAIN meals : Contains(meals[i], it)

\* line 54
IsCoffee(it) ==
    \/ Contains(<<"c","o","f","f","e","e">>, it) \/ Contains(<<"l","a","t","t","e">>, it)
    \/ Contains(<<"e","s","p","r","e","s","s","o">>, it) \/ Contains(<<"c","a","p","p","u","c","c","i","n","o">>, it)

\* line 56
IsTea(it) == Contains(<<"t","e","a">>, it) \/ Contains(<<"h","o","t"," ","c","h","o","c","o","l","a","t","e">>, it)

\* line 58
IsSweetDrink(it) ==
    \/ Contains(<<"c","o","k","e">>, it) \/ Contains(<<"j","u","i","c","e">>, it)
    \/ Contains(<<"s","m","o","o","t","h","i","e","s">>, it) \/ Contains(<<"f","a","n","t","a">>, it)

IsBread_substring(it) == Contains(<<"b","r","e","a","d">>, it)

\* line 62: item == 'bread'
IsBread(it) == it = <<"b","r","e","a","d">>

\* line 64
IsCrunch(it) ==
    Contains(<<"c","o","o","k","i","e","s">>, it) \/ Contains(<<"b","i","s","c","o","t","t","i">>, it) \/ Contains(<<"g","r","a","n","o","l","a">>, it)

\* line 66
IsSweetDessert(it) ==
    Contains(<<"c","a","k","e">>, it) \/ Contains(<<"t","a","r","t">>, it) \/ Contains(<<"f","u","d","g","e">>, it)

\* line 68
IsSoft(it) ==
    Contains(<<"p","a","s","t","r","y">>, it) \/ Contains(<<"m","e","d","i","a","l","u","n","a">>, it) \/ Contains(<<"m","u","f","f","i","n">>, it)

\* line 46: str(item).lower().strip(); str() of a text value is the value
normalize(raw) == strip(lower(raw))

\* the cascade with the Drink chain tried before the Meal list
map_item_category_drink_first(raw) ==
    LET it == normalize(raw) IN
    IF IsCoffee(it) THEN <<"Drink", "coffee">>
    ELSE IF IsTea(it) THEN <<"Drink", "tea">>
    ELSE IF IsSweetDrink(it) THEN <<"Drink", "sweet">>
    ELSE IF IsMeal(it) THEN <<"Meal", "meal">>
    ELSE IF IsBread(it) THEN <<"Dessert", "bread">>
    ELSE IF IsCrunch(it) THEN <<"Dessert", "crunch">>
    ELSE IF IsSweetDessert(it) THEN <<"Dessert", "sweet">>
    ELSE IF IsSoft(it) THEN <<"Dessert", "soft">>
    ELSE <<"Other", "other">>

\* the cascade without its last line: the function falls off its end
map_item_category_no_default(raw) ==
    LET it == normalize(raw) IN
    IF IsMeal(it) THEN <<"Meal", "meal">>
    ELSE IF IsCoffee(it) THEN <<"Drink", "coffee">>
    ELSE IF IsTea(it) THEN <<"Drink", "tea">>
    ELSE IF IsSweetDrink(it) THEN <<"Drink", "sweet">>
    ELSE IF IsBread(it) THEN <<"Dessert", "bread">>
    ELSE IF IsCrunch(it) THEN <<"Dessert", "crunch">>
    ELSE IF IsSweetDessert(it) THEN <<"Dessert", "sweet">>
    ELSE IF IsSoft(it) THEN <<"Dessert", "soft">>
    ELSE <<>>

map_item_category(raw) ==
    LET it == normalize(raw) IN
    IF IsMeal(it) THEN <<"Meal", "meal">>
    ELSE IF IsCoffee(it) THEN <<"Drink", "coffee">>
    ELSE IF IsTea(it) THEN <<"Drink", "tea">>
    ELSE IF IsSweetDrink(it) THEN <<"Drink", "sweet">>
    ELSE IF IsBread(it) THEN <<"Dessert", "bread">>
    ELSE IF IsCrunch(it) THEN <<"Dessert", "crunch">>
    ELSE IF IsSweetDessert(it) THEN <<"Dessert", "sweet">>
    ELSE IF IsSoft(it) THEN <<"Dessert", "soft">>
    ELSE <<"Other", "other">>

----------------------------------------------------------------------------
(* Contents of Bakery.csv *)

\* an empty Items field of the CSV, read by pd.read_csv as NaN
NaN == <<>>

Row(t, it, dt, dp) == [TransactionNo |-> t, Items |-> it, DayType |-> dt, Daypart |-> dp]

\* rows a freely composed file is made of
RowChoices ==
    { Row(1, <<"B","r","e","a","d">>, "Weekday", "Morning"),
      Row(1, <<"C","o","f","f","e","e">>, "Weekday", "Morning"),
      Row(2, <<"C","o","f","f","e","e">>, "Weekend", "Afternoon"),
      Row(3, <<"B","r","e","a","d">>, "Weekend", "Morning"),
      Row(2, NaN, "Weekday", "Evening"),
      Row(3, <<"T","e","a">>, "Weekday", "Night") }

\* a longer file, of which every prefix is a file of the model
Corpus ==
    << Row(1, <<"C","o","f","f","e","e">>, "Weekend", "Morning"),
       Row(1, <<"L","a","t","t","e">>, "Weekend", "Morning"),
       Row(2, <<"E","s","p","r","e","s","s","o">>, "Weekend", "Morning"),
       Row(3, <<"C","a","p","p","u","c","c","i","n","o">>, "Weekday", "Morning"),
       Row(3, <<"I","c","e","d"," ","C","o","f","f","e","e">>, "Weekday", "Morning"),
       Row(3, <<"L","a","t","t","e">>, "Weekday", "Morning"),
       Row(4, <<"C","h","a","i"," ","L","a","t","t","e">>, "Weekday", "Morning"),
       Row(4, <<"B","r","e","a","d">>, "Weekday", "Afternoon"),
       Row(5, <<"D","o","u","b","l","e"," ","E","s","p","r","e","s","s","o">>, "Weekday", "Afternoon"),
       Row(5, <<"D","e","c","a","f"," ","C","o","f","f","e","e">>, "Weekday", "Evening"),
       Row(5, <<"S","o","y"," ","L","a","t","t","e">>, "Weekday", "Morning"),
       Row(6, <<"C","o","f","f","e","e"," ","P","o","d","s">>, "Weekend", "Night"),
       Row(6, <<"M","o","c","h","a"," ","L","a","t","t","e">>, "Weekend", "Morning"),
       Row(7, <<"M","o","c","h","a"," ","L","a","t","t","e">>, "Weekend", "Night") >>

Files ==
    UNION {[1..k -> RowChoices] : k \in 0..MaxRows}
        \cup {SubSeq(Corpus, 1, k) : k \in 0..Len(Corpus)}

----------------------------------------------------------------------------
(* load_data *)


\* line 37
daypart_order == <<"Morning", "Afternoon", "Evening", "Night">>

None == [is_none |-> TRUE, rows |-> <<>>]

DataFrame(rows) == [is_none |-> FALSE, rows |-> rows]

\* line 34: df.dropna(subset=['Items'], inplace=True)
dropna(rows) == SelectSeq(rows, LAMBDA r : r.Items # NaN)

\* lines 21-40; the file does not change while the page is open, so the value
\* st.cache_data replays on a rerun is the value computed here
load_data(exists, rows) ==
    IF ~exists
    THEN [shown |-> {"error"}, df |-> None]
    ELSE [shown |-> {}, df |-> DataFrame(dropna(rows))]

\* lines 80-82: one row with its two derived columns
with_category(r, pair) ==
    [TransactionNo |-> r.TransactionNo, Items |-> r.Items, DayType |-> r.DayType,
     Daypart |-> r.Daypart, Category |-> pair[1], Sub_Category |-> pair[2]]

\* line 43: st.cache_data keeps what map_item_category returned for each
\* argument; the arguments are the item names that occur in the files
map_item_category_cache ==
    {<<n, map_item_category(n)>> : n \in {r.Items : r \in RowChoices \cup Range(Corpus)}}

cached_map_item_category(n) == (CHOOSE p \in map_item_category_cache : p[1] = n)[2]

\* lines 80-82: df['Items'].apply(...) assigned to Category and Sub_Category
apply_categories(rows) ==
    [i \in 1..Len(rows) |-> with_category(rows[i], cached_map_item_category(rows[i].Items))]

----------------------------------------------------------------------------
(* pandas operations used by the queries *)

RECURSIVE unique_from(_, _)
unique_from(s, seen) ==
    IF s = <<>> THEN seen
    ELSE unique_from(Tail(s), IF Head(s) \in Range(seen) THEN seen ELSE Append(seen, Head(s)))

\* distinct values in order of first appearance
unique(s) == unique_from(s, <<>>)

count_of(x, s) == Cardinality({i \in DOMAIN s : s[i] = x})

\* one step of the descending sort: entry e goes behind the entries that
\* sort before it; whether an equal count sorts before it is the build's
insert_desc(sorted, e, tie) ==
    LET k == Cardinality({i \in DOMAIN sorted :
                            \/ sorted[i].count > e.count
                            \/ (tie = "first" /\ sorted[i].count = e.count)})
    IN  SubSeq(sorted, 1, k) \o <<e>> \o SubSeq(sorted, k + 1, Len(sorted))

RECURSIVE sort_desc(_, _)
sort_desc(entries, tie) ==
    IF entries = <<>> THEN <<>>
    ELSE insert_desc(sort_desc(SubSeq(entries, 1, Len(entries) - 1), tie),
                     entries[Len(entries)], tie)

\* the count of every distinct value u[i] in s
counted(u, s) == [i \in 1..Len(u) |-> [item |-> u[i], count |-> count_of(u[i], s)]]

\* Series.value_counts(sort=False)
value_counts_unsorted(s, tie) == counted(unique(s), s)

\* Series.value_counts().reset_index(): one (value, count) row per distinct
\* value, highest count first
value_counts(s, tie) == sort_desc(counted(unique(s), s), tie)

\* DataFrame.head(n)
head(s, n) == SubSeq(s, 1, Min(n, Len(s)))

\* Series.count() of a column: the number of rows
count_rows(s) == Len(s)

\* Series.nunique()
nunique(s) == Len(unique(s))

\* the order groupby('DayType') sorts its keys in
DayTypeSorted == <<"Weekday", "Weekend">>

\* line 171 with .count() in place of .nunique()
groupby_DayType_count(rows) ==
    LET keys == SelectSeq(DayTypeSorted, LAMBDA k : \E i \in DOMAIN rows : rows[i].DayType = k)
    IN  [j \in 1..Len(keys) |->
            LET grp == SelectSeq(rows, LAMBDA r : r.DayType = keys[j]) IN
            [DayType |-> keys[j],
             Total_Transactions |-> count_rows([i \in 1..Len(grp) |-> grp[i].TransactionNo])]]

\* lines 171-172: df.groupby('DayType')['TransactionNo'].nunique().reset_index();
\* one row per DayType that occurs in df
groupby_DayType_nunique(rows) ==
    LET keys == SelectSeq(DayTypeSorted, LAMBDA k : \E i \in DOMAIN rows : rows[i].DayType = k)
    IN  [j \in 1..Len(keys) |->
            LET grp == SelectSeq(rows, LAMBDA r : r.DayType = keys[j]) IN
            [DayType |-> keys[j],
             Total_Transactions |-> nunique([i \in 1..Len(grp) |-> grp[i].TransactionNo])]]

\* Series.max() of a non-empty column of counts
max_of(s) == CHOOSE m \in Range(s) : \A x \in Range(s) : x <= m

----------------------------------------------------------------------------
(* Tab 1 *)

\* line 131
categories == <<"Dessert", "Drink", "Meal">>

\* lines 136-140
sub_category_map(c) ==
    CASE c = "Dessert" -> <<"sweet", "crunch", "soft", "bread">>
      [] c = "Drink" -> <<"sweet", "coffee", "tea">>
      [] c = "Meal" -> <<"meal">>

\* line 112: df[df['Daypart'] == selected_daypart]['Items']
daypart_items(rows, d) ==
    LET sel == SelectSeq(rows, LAMBDA r : r.Daypart = d) IN
    [i \in 1..Len(sel) |-> sel[i].Items]

\* line 149
category_item_names(rows, c, sc) ==
    LET sel == SelectSeq(rows, LAMBDA r : r.Category = c /\ r.Sub_Category = sc) IN
    [i \in 1..Len(sel) |-> sel[i].Items]

\* lines 111-116
daypart_top_5_of(rows, d, tie) == head(value_counts(daypart_items(rows, d), tie), 5)

\* lines 148-153
category_items_of(rows, c, sc, tie) ==
    head(value_counts(category_item_names(rows, c, sc), tie), 10)

Tab1Elements ==
    {"title", "selectbox_daypart", "daypart_top_5", "radio_category",
     "selectbox_sub_category", "category_items"}

----------------------------------------------------------------------------
(* Tab 2 *)

weekend_wins_or_ties(we, wd) == we >= wd

\* line 223
weekend_wins(we, wd) == we > wd

\* a column selection followed by .iloc[0]: the sequence the selection gives;
\* .iloc[0] of an empty one raises IndexError
totals_of(sbd, daytype) ==
    LET sel == SelectSeq(sbd, LAMBDA r : r.DayType = daytype) IN
    [i \in 1..Len(sel) |-> sel[i].Total_Transactions]

Tab2Unset ==
    [rendered |-> {"tab2_header"}, ran |-> {"sales_by_day"}, sales_by_day |-> <<>>,
     color_map |-> {}, weekend_sales |-> -1, weekday_sales |-> -1, message |-> "",
     exception |-> ""]

\* lines 181-187
color_map_of(weekend_total, max_sales) ==
    IF weekend_total = max_sales
    THEN {<<"Weekend", "#E36496">>, <<"Weekday", "#FADADD">>}
    ELSE {<<"Weekday", "#E36496">>, <<"Weekend", "#FADADD">>}

\* lines 174-227, for the grouped frame sbd and its two column selections
Tab2Rest(sbd, weekend, weekday) ==
    IF weekend = <<>>
    THEN \* line 182 raises
         [Tab2Unset EXCEPT !.sales_by_day = sbd, !.exception = "IndexError"]
    ELSE IF weekday = <<>>
    THEN \* line 217 raises, after the chart and line 216
         [Tab2Unset EXCEPT
            !.sales_by_day = sbd,
            !.color_map = color_map_of(weekend[1],
                              max_of([i \in 1..Len(sbd) |-> sbd[i].Total_Transactions])),
            !.rendered = {"tab2_header", "chart"},
            !.weekend_sales = weekend[1],
            !.exception = "IndexError"]
    ELSE [rendered |-> {"tab2_header", "chart", "metrics", "message"}
                        \cup (IF weekend_wins(weekend[1], weekday[1])
                              THEN {"balloons"} ELSE {}),
          ran |-> {"sales_by_day", "compare"},
          sales_by_day |-> sbd,
          color_map |-> color_map_of(weekend[1],
                            max_of([i \in 1..Len(sbd) |-> sbd[i].Total_Transactions])),
          weekend_sales |-> weekend[1],
          weekday_sales |-> weekday[1],
          message |-> IF weekend_wins(weekend[1], weekday[1]) THEN "Weekend" ELSE "Weekday",
          exception |-> ""]

Tab2Grouped(sbd) == Tab2Rest(sbd, totals_of(sbd, "Weekend"), totals_of(sbd, "Weekday"))

\* lines 166-227
Tab2(rows) == Tab2Grouped(groupby_DayType_nunique(rows))

----------------------------------------------------------------------------
(* One run of the script, top to bottom *)

NoOutput ==
    [df |-> None, rendered |-> {}, ran |-> {}, daypart_top_5 |-> <<>>,
     category_items |-> <<>>, sales_by_day |-> <<>>, color_map |-> {},
     weekend_sales |-> -1, weekday_sales |-> -1, message |-> "", exception |-> ""]

\* line 78
dashboard_guard(frame) == ~frame.is_none

\* lines 84-227 for the classified table t; tab2 is what lines 166-227 give
DashboardTabs(shown, t, tab2, b, d, c, sc) ==
    [df |-> DataFrame(t),
     rendered |-> shown \cup Tab1Elements \cup tab2.rendered,
     ran |-> {"load_data", "apply", "daypart_top_5", "category_items"} \cup tab2.ran,
     daypart_top_5 |-> daypart_top_5_of(t, d, b.tie),
     category_items |-> category_items_of(t, c, sc, b.tie),
     sales_by_day |-> tab2.sales_by_day,
     color_map |-> tab2.color_map,
     weekend_sales |-> tab2.weekend_sales,
     weekday_sales |-> tab2.weekday_sales,
     message |-> tab2.message,
     exception |-> tab2.exception]

Dashboard(shown, t, b, d, c, sc) == DashboardTabs(shown, t, Tab2(t), b, d, c, sc)

\* lines 78-227 for what load_data returned and the widget values d, c, sc
ScriptLoaded(loaded, b, d, c, sc) ==
    IF ~dashboard_guard(loaded.df)
    THEN [NoOutput EXCEPT !.rendered = loaded.shown, !.ran = {"load_data"}]
    ELSE IF loaded.df.rows = <<>> /\ b.empty_apply = "ValueError"
    THEN \* line 80: apply on an empty column gives an empty Series, which
         \* cannot be assigned to two columns
         [NoOutput EXCEPT !.df = loaded.df, !.rendered = loaded.shown,
                          !.ran = {"load_data", "apply"},
                          !.exception = "ValueError"]
    ELSE Dashboard(loaded.shown, apply_categories(loaded.df.rows), b, d, c, sc)

\* lines 75-227
Script(exists, rows, b, d, c, sc) == ScriptLoaded(load_data(exists, rows), b, d, c, sc)

----------------------------------------------------------------------------
(* State before the script has run *)

NothingRun ==
    /\ df = [is_none |-> TRUE, rows |-> <<>>]
    /\ rendered = {}
    /\ ran = {}
    /\ daypart_top_5 = <<>>
    /\ category_items = <<>>
    /\ sales_by_day = <<>>
    /\ color_map = {}
    /\ weekend_sales = -1
    /\ weekday_sales = -1
    /\ message = ""
    /\ exception = ""
    /\ pc = "start"

----------------------------------------------------------------------------
(* Direct calls of the classifier: SpecClassify *)

ItemPieces ==
    { <<" ">>, <<"B","r","e","a","d">>, <<"B","R","E","A","D">>, <<"c","r","u","m","b","s">>, <<"S","a","n","d","w","i","c","h">>, <<"C","o","f","f","e","e">>, <<"t","e","a">>,
      <<"J","u","i","c","e">>, <<"C","o","o","k","i","e","s">>, <<"C","a","k","e">>, <<"M","u","f","f","i","n">>, <<"T","O","A","S","T">>, <<"L","a","t","t","e">>, <<"s">> }

RECURSIVE Join(_)
Join(ps) == IF ps = <<>> THEN <<>> ELSE Head(ps) \o Join(Tail(ps))

ItemStrings ==
    {Join(ps) : ps \in UNION {[1..k -> ItemPieces] : k \in 0..MaxPieces}}

InitClassify ==
    /\ item \in ItemStrings
    /\ result = <<>>
    /\ file_exists = FALSE
    /\ file_rows = <<>>
    /\ build = [tie |-> "first", empty_apply |-> "ValueError"]
    /\ selected_daypart = "Morning"
    /\ item_category = "Dessert"
    /\ selected_sub_category = "sweet"
    /\ NothingRun

\* one call map_item_category(item); result collects the value returned
Classify ==
    /\ result = <<>>
    /\ result' = <<map_item_category(item)>>
    /\ UNCHANGED <<item, dashboard_vars>>

NextClassify == Classify

SpecClassify == InitClassify /\ [][NextClassify]_vars

----------------------------------------------------------------------------
(* The dashboard: Spec *)

\* what the installed libraries decide: the order value_counts gives equal
\* counts (first seen first, or first seen last), and whether assigning the
\* result of apply on an empty column to two columns raises
Builds == [tie : {"first", "last"}, empty_apply : {"ValueError", "ok"}]

Init ==
    /\ item = <<>>
    /\ result = <<>>
    /\ file_exists \in BOOLEAN
    /\ file_rows \in (IF file_exists THEN Files ELSE {<<>>})
    /\ build \in Builds
    /\ selected_daypart = daypart_order[1]
    /\ item_category = categories[1]
    /\ selected_sub_category = sub_category_map(categories[1])[1]
    /\ NothingRun

\* the widget values of a run and what the run produced
Rerun(d, c, sc, out) ==
    /\ selected_daypart' = d
    /\ item_category' = c
    /\ selected_sub_category' = sc
    /\ df' = out.df
    /\ rendered' = out.rendered
    /\ ran' = out.ran
    /\ daypart_top_5' = out.daypart_top_5
    /\ category_items' = out.category_items
    /\ sales_by_day' = out.sales_by_day
    /\ color_map' = out.color_map
    /\ weekend_sales' = out.weekend_sales
    /\ weekday_sales' = out.weekday_sales
    /\ message' = out.message
    /\ exception' = out.exception
    /\ pc' = "done"
    /\ UNCHANGED <<classifier_vars, file_exists, file_rows, build>>

\* the page is opened: the script runs with every widget at its first option
FirstRun ==
    /\ pc = "start"
    /\ \E out \in {Script(file_exists, file_rows, build, selected_daypart, item_category,
                          selected_sub_category)} :
          Rerun(selected_daypart, item_category, selected_sub_category, out)

\* the rerun queries with the value the widget had before the change
SelectDaypart_stale(d) ==
    /\ pc = "done"
    /\ "selectbox_daypart" \in rendered
    /\ d # selected_daypart
    /\ \E out \in {Script(file_exists, file_rows, build, selected_daypart, item_category,
                          selected_sub_category)} :
          Rerun(d, item_category, selected_sub_category, out)

\* lines 105-108: another daypart is picked; the script reruns
SelectDaypart(d) ==
    /\ pc = "done"
    /\ "selectbox_daypart" \in rendered
    /\ d # selected_daypart
    /\ \E out \in {Script(file_exists, file_rows, build, d, item_category,
                          selected_sub_category)} :
          Rerun(d, item_category, selected_sub_category, out)

\* lines 129-133: another category is picked; the sub-category selectbox is a
\* new widget (its label names the category) and shows its first option
SelectCategory(c) ==
    /\ pc = "done"
    /\ "radio_category" \in rendered
    /\ c # item_category
    /\ \E out \in {Script(file_exists, file_rows, build, selected_daypart, c,
                          sub_category_map(c)[1])} :
          Rerun(selected_daypart, c, sub_category_map(c)[1], out)

\* lines 142-145: another sub-category of the current category is picked
SelectSubCategory(sc) ==
    /\ pc = "done"
    /\ "selectbox_sub_category" \in rendered
    /\ sc \in Range(sub_category_map(item_category))
    /\ sc # selected_sub_category
    /\ \E out \in {Script(file_exists, file_rows, build, selected_daypart, item_category, sc)} :
          Rerun(selected_daypart, item_category, sc, out)

Next ==
    \/ FirstRun
    \/ \E d \in Range(daypart_order) : SelectDaypart(d)
    \/ \E c \in Range(categories) : SelectCategory(c)
    \/ \E sc \in {"sweet", "crunch", "soft", "bread", "coffee", "tea", "meal"} :
          SelectSubCategory(sc)

Spec == Init /\ [][Next]_vars

----------------------------------------------------------------------------
(* Claims about map_item_category *)

Taxonomy ==
    { <<"Meal", "meal">>, <<"Drink", "coffee">>, <<"Drink", "tea">>,
      <<"Drink", "sweet">>, <<"Dessert", "bread">>, <<"Dessert", "crunch">>,
      <<"Dessert", "sweet">>, <<"Dessert", "soft">>, <<"Other", "other">> }

\* the rules in the order Meal, Drink-coffee, Drink-tea, Drink-sweet,
\* Dessert-bread, Dessert-crunch, Dessert-sweet, Dessert-soft
RuleResult ==
    << <<"Meal", "meal">>, <<"Drink", "coffee">>, <<"Drink", "tea">>,
       <<"Drink", "sweet">>, <<"Dessert", "bread">>, <<"Dessert", "crunch">>,
       <<"Dessert", "sweet">>, <<"Dessert", "soft">> >>

RuleMatches(i, n) ==
    CASE i = 1 -> IsMeal(n)
      [] i = 2 -> IsCoffee(n)
      [] i = 3 -> IsTea(n)
      [] i = 4 -> IsSweetDrink(n)
      [] i = 5 -> n = <<"b","r","e","a","d">>
      [] i = 6 -> IsCrunch(n)
      [] i = 7 -> IsSweetDessert(n)
      [] i = 8 -> IsSoft(n)

MatchingRules(n) == {i \in 1..8 : RuleMatches(i, n)}

Returned == Len(result) = 1

\* C1: map_item_category is total: every call returns exactly one pair, the
\* pair is one of the nine pairs of the taxonomy, and a string that matches no
\* keyword rule maps to (Other, other).
C1_Total ==
    Returned =>
        /\ result[1] \in Taxonomy
        /\ (MatchingRules(normalize(item)) = {} => result[1] = <<"Other", "other">>)

C1_Witness ==
    /\ Returned
    /\ normalize(item) # <<>>
    /\ MatchingRules(normalize(item)) = {}
    /\ result[1] = <<"Other", "other">>

\* C2: overlapping rules are resolved by first match in the fixed order: a
\* string whose normalized form contains a Meal keyword is (Meal, meal) even
\* when it also contains a Drink or Dessert keyword, and in general the result
\* is the result of the earliest matching rule.
C2_FirstMatch ==
    Returned =>
        LET n == normalize(item)
            m == MatchingRules(n)
        IN  /\ (IsMeal(n) => result[1] = <<"Meal", "meal">>)
            /\ (m # {} => \E i \in m : /\ \A j \in m : i <= j
                                       /\ result[1] = RuleResult[i])

C2_Witness ==
    /\ Returned
    /\ IsMeal(normalize(item))
    /\ IsCoffee(normalize(item))
    /\ result[1] = <<"Meal", "meal">>

\* C3: the (Dessert, bread) rule is an equality rule: the result is
\* (Dessert, bread) exactly when the normalized string equals "bread"; a
\* string that only contains "bread" and matches no other keyword is
\* (Other, other).
C3_BreadExact ==
    Returned =>
        LET n == normalize(item) IN
        /\ (result[1] = <<"Dessert", "bread">>) <=> (n = <<"b","r","e","a","d">>)
        /\ (/\ Contains(<<"b","r","e","a","d">>, n)
            /\ n # <<"b","r","e","a","d">>
            /\ MatchingRules(n) = {}) => result[1] = <<"Other", "other">>

C3_Witness ==
    /\ Returned
    /\ Contains(<<"b","r","e","a","d">>, normalize(item))
    /\ normalize(item) # <<"b","r","e","a","d">>
    /\ item # normalize(item)
    /\ result[1] = <<"Other", "other">>

----------------------------------------------------------------------------
(* Claims about the dashboard *)

DayTypes == {"Weekday", "Weekend"}

RowsOf(k) == {i \in DOMAIN df.rows : df.rows[i].DayType = k}

TransactionsOf(k) == {df.rows[i].TransactionNo : i \in RowsOf(k)}

\* C4: the count of a DayType is the number of distinct TransactionNo values
\* among the rows of that DayType, not the number of rows; repeating a row
\* that is already in the table leaves every count unchanged.
C4_DistinctTransactions ==
    "sales_by_day" \in ran =>
        /\ \A k \in DayTypes :
              LET entries == {j \in DOMAIN sales_by_day : sales_by_day[j].DayType = k} IN
              IF TransactionsOf(k) = {}
              THEN entries = {}
              ELSE /\ Cardinality(entries) = 1
                   /\ \A j \in entries :
                         sales_by_day[j].Total_Transactions = Cardinality(TransactionsOf(k))
        /\ \A i \in DOMAIN df.rows :
              groupby_DayType_nunique(Append(df.rows, df.rows[i])) = sales_by_day

C4_Witness ==
    /\ "sales_by_day" \in ran
    /\ \E j \in DOMAIN sales_by_day :
          /\ sales_by_day[j].Total_Transactions = 2
          /\ Cardinality(RowsOf(sales_by_day[j].DayType)) = 3

\* the item names of the rows the daypart filter keeps, and of the rows the
\* category filter keeps
DaypartRows == {i \in DOMAIN df.rows : df.rows[i].Daypart = selected_daypart}

CategoryRows ==
    {i \in DOMAIN df.rows : /\ df.rows[i].Category = item_category
                            /\ df.rows[i].Sub_Category = selected_sub_category}

Occurrences(x, kept) == Cardinality({i \in kept : df.rows[i].Items = x})

TopItems(res, kept, limit) ==
    /\ Len(res) <= limit
    /\ \A i \in DOMAIN res : /\ res[i].count = Occurrences(res[i].item, kept)
                             /\ res[i].count >= 1
    /\ \A i, j \in DOMAIN res : i < j => /\ res[i].count >= res[j].count
                                         /\ res[i].item # res[j].item
    /\ \A k \in kept :
          (\A i \in DOMAIN res : res[i].item # df.rows[k].Items) =>
              \A i \in DOMAIN res : Occurrences(df.rows[k].Items, kept) <= res[i].count

\* C5: the daypart table has at most 5 (item, count) entries, each count is
\* the number of rows of the selected daypart with that item, the entries are
\* in non-increasing order of count and no omitted item has a higher count
\* than a listed one; the category table does the same with at most 10
\* entries over the rows of the selected (Category, Sub_Category).
C5_TopItems ==
    "daypart_top_5" \in ran =>
        /\ TopItems(daypart_top_5, DaypartRows, 5)
        /\ TopItems(category_items, CategoryRows, 10)

C5_Witness ==
    /\ "daypart_top_5" \in ran
    /\ Len(daypart_top_5) = 5
    /\ Cardinality({df.rows[i].Items : i \in DaypartRows}) > 5
    /\ daypart_top_5[1].count > daypart_top_5[5].count
    /\ DaypartRows # DOMAIN df.rows
    /\ Len(category_items) = 10
    /\ Cardinality({df.rows[i].Items : i \in CategoryRows}) > 10
    /\ category_items[1].count > category_items[10].count

\* C6: the summary names Weekend exactly when the weekend count is strictly
\* greater than the weekday count, and Weekday otherwise; equal counts give
\* Weekday.
C6_StrictWinner ==
    "message" \in rendered =>
        /\ message \in DayTypes
        /\ (message = "Weekend") <=> (weekend_sales > weekday_sales)
        /\ (weekend_sales = weekday_sales) => message = "Weekday"

C6_Witness ==
    /\ "message" \in rendered
    /\ weekend_sales = weekday_sales
    /\ weekend_sales >= 1
    /\ message = "Weekday"

\* C7: a filter that matches no rows gives an empty table or a zero count and
\* never an exception; on a loaded table without rows of one DayType the
\* comparison completes with a zero count for that DayType.
C7_EmptyResultNoException ==
    (pc = "done" /\ file_exists) =>
        /\ exception = ""
        /\ "message" \in rendered
        /\ (RowsOf("Weekend") = {} => weekend_sales = 0)
        /\ (RowsOf("Weekday") = {} => weekday_sales = 0)

DashboardElements ==
    Tab1Elements \cup {"tab2_header", "chart", "metrics", "message"}

\* C8: with the file absent the run shows the error, has no table, renders no
\* part of the dashboard, runs no classifier or aggregator operation and ends
\* normally; with the file present the dashboard is rendered and no
\* missing-file error is shown.
C8_MissingFileGuard ==
    pc = "done" =>
        IF ~file_exists
        THEN /\ rendered = {"error"}
             /\ df.is_none
             /\ ran = {"load_data"}
             /\ exception = ""
        ELSE /\ "error" \notin rendered
             /\ DashboardElements \subseteq rendered

\* C9: once loaded and classified the table is the same in every state: no
\* interaction adds, removes or changes a row or its Category/Sub_Category,
\* and the two tables shown are the ones the current table and the current
\* selection give, whatever was selected before.
C9_TableImmutable ==
    [][/\ (pc = "done" /\ ~df.is_none) => df' = df
       /\ ("daypart_top_5" \in ran' =>
              /\ daypart_top_5' = daypart_top_5_of(df'.rows, selected_daypart', build'.tie)
              /\ category_items' = category_items_of(df'.rows, item_category',
                                        selected_sub_category', build'.tie)
              /\ \A i \in DOMAIN df'.rows :
                    <<df'.rows[i].Category, df'.rows[i].Sub_Category>>
                        = map_item_category(df'.rows[i].Items))]_vars

C9_Witness ==
    /\ pc = "done"
    /\ selected_daypart = "Afternoon"
    /\ item_category = "Drink"
    /\ selected_sub_category = "coffee"
    /\ daypart_top_5 # <<>>
    /\ category_items # <<>>
    /\ Len(df.rows) < Len(file_rows)

\* C10: the DayType drawn in the dark colour #E36496 is the DayType the
\* summary names as having the higher count, for every pair of counts.
C10_HighlightMatchesMessage ==
    "message" \in rendered => <<message, "#E36496">> \in color_map

=============================================================================
